---------------------------- MODULE Spec2Model ----------------------------
(***************************************************************************)
(* State-machine model of production-server.js: the in-memory statistics   *)
(* record (modelStats), its persistence file (model_stats.json), the four  *)
(* HTTP handlers (/tap/sync, /predict, /ai/predict, /api/stats), the       *)
(* SIGTERM hook and process start.                                         *)
(*                                                                         *)
(* Units.  Confidence values and weights are counted in thousandths        *)
(* (0.3 is 300, 1.0 is 1000), feature values in tenths (0.5 is 5, 200 is   *)
(* 2000).  The sums of the four weights formed by the code differ from the *)
(* exact decimals by less than 1e-15 in IEEE doubles, which crosses no     *)
(* comparison (0.5, 1.0) and no rounding boundary used by the handlers.    *)
(*                                                                         *)
(* Time.  `today' is the calendar day (what new Date().toDateString()      *)
(* yields), `clock' a logical timestamp read by new Date().toISOString().  *)
(***************************************************************************)
EXTENDS Integers, Sequences, FiniteSets, TLC

VARIABLES
    today,        \* current calendar day
    clock,        \* logical time stamp, advanced whenever the code reads it
    proc,         \* "starting" | "listening" | "stopping" | "exited" | "crashed"
    modelStats,   \* the in-memory record (line 12)
    file,         \* content of model_stats.json
    reqs,         \* requests suspended at an await
    writes,       \* fs.writeFile calls in flight
    nreq,         \* requests received so far
    boots,        \* processes started so far
    resp          \* the response sent last

vars == <<today, clock, proc, modelStats, file, reqs, writes, nreq, boots, resp>>

-----------------------------------------------------------------------------
(* Bounds of the model *)

MaxRequests == 2
MaxDay == 2
MaxBoots == 2
MaxPending == 2

-----------------------------------------------------------------------------
(* Program constants *)

HistoryCap == 100
TrainingSamples == 9564
FeaturesCount == 4
FeatureArity == 4

PeriodWeight == 300
RadiusWeight == 300
DistanceWeight == 250
TemperatureWeight == 150
MaxConfidence == 1000
ConfirmThreshold == 500
AiConfirmThreshold == 500

-----------------------------------------------------------------------------
(* JavaScript values used by the handlers *)

\* A JSON value after Number(): a finite number (in tenths) or NaN.
Num(v) == [num |-> TRUE, v |-> v]
NaN == [num |-> FALSE, v |-> 0]

\* Mutant: the lower end of a range is excluded.
InRangeAboveLow(x, lo, hi) == x.num /\ x.v > lo /\ x.v <= hi

\* period >= lo && period <= hi; every comparison with NaN is false.
InRange(x, lo, hi) == x.num /\ x.v >= lo /\ x.v <= hi

\* Math.round(confidence*100)/100, on thousandths.
Round2(c) == ((c + 5) \div 10) * 10

Min(a, b) == IF a <= b THEN a ELSE b

\* reasoning.join(', ')
RECURSIVE Join(_)
Join(texts) ==
    IF texts = <<>> THEN ""
    ELSE IF Len(texts) = 1 THEN texts[1]
    ELSE texts[1] \o ", " \o Join(Tail(texts))

-----------------------------------------------------------------------------
(* Scoring step of POST /predict, lines 103-113 *)

\* One `if (cond) { score += w; reasoning.push(text); }' statement.
ScoreStep(acc, cond, w, text) ==
    IF cond
    THEN [score |-> acc.score + w, reasoning |-> Append(acc.reasoning, text)]
    ELSE acc

\* Lines 104-110: the four checks applied in order to the mapped features.
Score(f) ==
    LET s0 == [score |-> 0, reasoning |-> <<>>]
        s1 == ScoreStep(s0, InRange(f[1], 2000, 5000), PeriodWeight,
                        "Favorable orbital period")
        s2 == ScoreStep(s1, InRange(f[2], 5, 20), RadiusWeight,
                        "Earth-like size")
        s3 == ScoreStep(s2, InRange(f[3], 8, 15), DistanceWeight,
                        "In habitable zone")
        s4 == ScoreStep(s3, InRange(f[4], 2730, 3730), TemperatureWeight,
                        "Temperature allows liquid water")
    IN  s4

\* Line 112: Math.min(score, 1.0)
Confidence(score) == Min(score, MaxConfidence)

\* Mutant: the two branches of the conditional are exchanged.
PredictionSwapped(confidence) ==
    IF confidence >= ConfirmThreshold THEN "FALSE POSITIVE" ELSE "CONFIRMED"

\* Line 113
Prediction(confidence) ==
    IF confidence >= ConfirmThreshold THEN "CONFIRMED" ELSE "FALSE POSITIVE"

-----------------------------------------------------------------------------
(* The statistics record and its JSON file *)

\* Lines 12-25: the record a starting process constructs on day `day' at
\* time stamp `t'.
DefaultStats(day, t) ==
    [ model_type            |-> "Random Forest Classifier",
      training_samples      |-> TrainingSamples,
      features_count        |-> FeaturesCount,
      last_updated          |-> day,
      total_predictions     |-> 0,
      confirmed_predictions |-> 0,
      rejected_predictions  |-> 0,
      total_confidence      |-> 0,
      prediction_history    |-> <<>>,
      start_time            |-> t,
      api_calls_today       |-> 0,
      last_reset            |-> day ]

\* obj[k] = v, adding the key when obj lacks it.
Put(obj, k, v) ==
    [x \in DOMAIN obj \cup {k} |-> IF x = k THEN v ELSE obj[x]]

\* Mutant: the fields of the first object win, { ...b, ...a }.
SpreadFirstWins(a, b) ==
    [k \in DOMAIN a \cup DOMAIN b |-> IF k \in DOMAIN a THEN a[k] ELSE b[k]]

\* { ...a, ...b }
Spread(a, b) ==
    [k \in DOMAIN a \cup DOMAIN b |-> IF k \in DOMAIN b THEN b[k] ELSE a[k]]

\* JSON.stringify(modelStats, null, 2): the text of an object document.  Every
\* value the handlers store is a finite number, a string or an array or object
\* of such, which JSON.parse reads back unchanged.
Stringify(stats) == [kind |-> "object", obj |-> stats]

\* model_stats.json holding `text', last written on day `day'.
File(text, day) == [kind |-> text.kind, obj |-> text.obj, mtime |-> day]

\* No file, a file whose text is no JSON, a file whose text is `null'.
NoFile == [kind |-> "absent", obj |-> [none |-> TRUE], mtime |-> 0]
GarbageFile == [kind |-> "garbage", obj |-> [none |-> TRUE], mtime |-> 0]
NullFile == [kind |-> "null", obj |-> [none |-> TRUE], mtime |-> 0]

\* Mutant: the rollover renews last_reset and keeps the saved count.
RolloverKeepsCount(saved, day) ==
    IF "last_reset" \in DOMAIN saved /\ saved.last_reset = day
    THEN saved
    ELSE Put(saved, "last_reset", day)

\* Lines 34-37: the day-rollover applied to the parsed object.
Rollover(saved, day) ==
    IF "last_reset" \in DOMAIN saved /\ saved.last_reset = day
    THEN saved
    ELSE Put(Put(saved, "api_calls_today", 0), "last_reset", day)

\* Mutant: loadStats without its try/catch.
LoadResultUncaught(doc, stats, day) ==
    IF doc.kind = "object"
    THEN [stats |-> Spread(stats, Rollover(doc.obj, day)), threw |-> FALSE]
    ELSE [stats |-> stats, threw |-> TRUE]

\* Lines 31-42: loadStats on file content `doc'.  readFile rejects when the file
\* is absent, JSON.parse throws on text that is no JSON, reading a property of
\* the parsed value null throws; the catch swallows each.
LoadResult(doc, stats, day) ==
    IF doc.kind = "object"
    THEN [stats |-> Spread(stats, Rollover(doc.obj, day)), threw |-> FALSE]
    ELSE [stats |-> stats, threw |-> FALSE]

\* Mutant: saveStats without its try/catch.
SaveRejectsOnFailure(ok) == ~ok

\* Lines 45-51: whether the promise of saveStats rejects when the write
\* succeeds (ok) or fails: the catch logs the error and the promise resolves.
SaveRejects(ok) == FALSE

-----------------------------------------------------------------------------
(* Request inputs *)

JNum(n) == [t |-> "number", v |-> n]
JStr(s) == [t |-> "string", s |-> s]

\* Number(x) of line 103 for a JSON number and for a string that is no numeral.
ToNumber(x) == IF x.t = "number" THEN Num(x.v) ELSE NaN

\* features.map(Number)
MapNumber(elems) == [i \in DOMAIN elems |-> ToNumber(elems[i])]

Vec(p, r, d, t) == <<JNum(p), JNum(r), JNum(d), JNum(t)>>

\* req.body.features of POST /predict
NoFeatures == [kind |-> "missing", elems |-> <<>>]
StringFeatures == [kind |-> "string", elems |-> <<>>]
ArrayFeatures(elems) == [kind |-> "array", elems |-> elems]

\* Line 100: !features || !Array.isArray(features) || features.length !== 4
BadFeatures(features) ==
    features.kind # "array" \/ Len(features.elems) # FeatureArity

-----------------------------------------------------------------------------
(* History entries *)

\* Lines 120-124
PredictEntry(features, prediction, confidence, t, reasoning) ==
    [ features   |-> features,
      prediction |-> prediction,
      confidence |-> Round2(confidence),
      timestamp  |-> t,
      reasoning  |-> Join(reasoning) ]

\* Lines 302-307: data.confidence || 0
AiEntry(body, data, t) ==
    [ timestamp  |-> t,
      input      |-> body,
      output     |-> data,
      confidence |-> IF "confidence" \in DOMAIN data THEN data.confidence ELSE 0 ]

\* Line 125: push, then slice(-100) when longer than 100.
PushHistory(h, e) ==
    LET h1 == Append(h, e)
    IN  IF Len(h1) > HistoryCap
        THEN SubSeq(h1, Len(h1) - HistoryCap + 1, Len(h1))
        ELSE h1

\* Lines 309-312: unshift, then slice(0, 100) when longer than 100.
UnshiftHistory(h, e) ==
    LET h1 == <<e>> \o h
    IN  IF Len(h1) > HistoryCap THEN SubSeq(h1, 1, HistoryCap) ELSE h1

-----------------------------------------------------------------------------
(* Inputs drawn by the model *)

AllSatisfied == ArrayFeatures(Vec(3000, 10, 10, 3000))
NoneSatisfied == ArrayFeatures(Vec(10000, 50, 100, 10000))

\* Bodies of POST /predict: no features, features that is a string, an array of
\* the wrong length, [300, 1.0, 1.0, 300] and [1000, 5, 10, 1000].
PredictInputs ==
    { NoFeatures, StringFeatures, ArrayFeatures(<<JNum(3000)>>),
      AllSatisfied, NoneSatisfied }

\* ?query= of GET /tap/sync: absent (or empty) and present.
TapQueries == {"", "select pl_name from ps"}

\* What the upstream of a proxied request does: fetch rejects, the status is
\* not ok, or the status is ok.
FetchFailures == {"unreachable", "status"}

\* Parsed bodies of a successful answer of the external prediction API.
AiData ==
    { [prediction |-> "unknown"],
      [prediction |-> "planet", confidence |-> 900],
      [prediction |-> "planet", confidence |-> 500] }

AiBody == [koi |-> "K00752.01"]

\* A record written by an earlier process on day `day': 99 recordings of
\* [300, 1.0, 1.0, 300] through POST /predict, at time stamps 1..99.
PriorHistory ==
    [i \in 1..(HistoryCap - 1) |->
        PredictEntry(AllSatisfied.elems, "CONFIRMED", MaxConfidence, i,
                     Score(MapNumber(AllSatisfied.elems)).reasoning)]

PriorStats(day) ==
    [ DefaultStats(day, 0) EXCEPT
        !.total_predictions = HistoryCap - 1,
        !.confirmed_predictions = HistoryCap - 1,
        !.total_confidence = (HistoryCap - 1) * MaxConfidence,
        !.prediction_history = PriorHistory,
        !.api_calls_today = 7 ]

\* A record of fewer fields, as a file kept from an earlier layout holds.
PartialStats(day) ==
    [ total_predictions |-> 2, confirmed_predictions |-> 1,
      rejected_predictions |-> 1, training_samples |-> 5000,
      api_calls_today |-> 3, last_reset |-> day ]

FirstDay == 1
FirstClock == 100

\* What a starting process may find, each record last written on the day of
\* its last_reset.
InitFiles ==
    { NoFile, GarbageFile, NullFile }
    \cup { File(Stringify(PriorStats(d)), d) : d \in {FirstDay - 1, FirstDay} }
    \cup { File(Stringify(PartialStats(FirstDay - 1)), FirstDay - 1) }

-----------------------------------------------------------------------------
(* Responses and bookkeeping *)

None == [none |-> TRUE]

NoResponse == [id |-> 0, route |-> "none", req |-> None, status |-> 0, body |-> None]

\* The answer `status', `body' to request `id' of `route', whose input was `req'.
Response(id, route, req, status, body) ==
    [id |-> id, route |-> route, req |-> req, status |-> status, body |-> body]

\* The server answers requests from app.listen until process.exit.
Serving == proc \in {"listening", "stopping"}

\* A further request is received: the model bounds the requests of a run and
\* the operations in flight at a time.
Accepting ==
    /\ Serving
    /\ nreq < MaxRequests
    /\ Cardinality(reqs) + Cardinality(writes) < MaxPending

\* saveStats() entered by request `id' of `route': JSON.stringify runs at once,
\* the write is in flight until WriteDone.  `locals' are the caller's variables
\* that it uses after the await.
saveStats(id, route, stats, awaited, locals) ==
    [ owner |-> id, route |-> route, boot |-> boots,
      snapshot |-> Stringify(stats), awaited |-> awaited, locals |-> locals ]

Init ==
    /\ today = FirstDay
    /\ clock = FirstClock
    /\ proc = "starting"
    /\ modelStats = DefaultStats(FirstDay, FirstClock)
    /\ file \in InitFiles
    /\ reqs = {}
    /\ writes = {}
    /\ nreq = 0
    /\ boots = 1
    /\ resp = NoResponse

-----------------------------------------------------------------------------
(* Process start and the clock *)

\* The calendar day changes.
Tick ==
    /\ today < MaxDay
    /\ today' = today + 1
    /\ UNCHANGED <<clock, proc, modelStats, file, reqs, writes, nreq, boots, resp>>

\* Lines 156-161 with 30-43: startServer awaits loadStats, then listens.  An
\* error escaping loadStats would reject startServer() with nothing to handle it.
loadStats ==
    /\ proc = "starting"
    /\ LET r == LoadResult(file, modelStats, today)
       IN  /\ modelStats' = r.stats
           /\ proc' = IF r.threw THEN "crashed" ELSE "listening"
    /\ UNCHANGED <<today, clock, file, reqs, writes, nreq, boots, resp>>

\* A new process is started after the previous one exited: lines 12-25 run
\* again; requests and writes of the old process are gone.
startServer ==
    /\ proc = "exited"
    /\ boots < MaxBoots
    /\ boots' = boots + 1
    /\ clock' = clock + 1
    /\ modelStats' = DefaultStats(today, clock + 1)
    /\ proc' = "starting"
    /\ reqs' = {}
    /\ writes' = {}
    /\ UNCHANGED <<today, file, nreq, resp>>

-----------------------------------------------------------------------------
(* GET /tap/sync, lines 63-92 *)

\* Mutant: the call is counted after a day-rollover check of its own.
RecordApiCallWithRollover(stats) ==
    IF stats.last_reset # today
    THEN [stats EXCEPT !.api_calls_today = 1, !.last_reset = today]
    ELSE [stats EXCEPT !.api_calls_today = @ + 1]

\* Lines 65 and 141: modelStats.api_calls_today++
RecordApiCall(stats) == [stats EXCEPT !.api_calls_today = @ + 1]

\* Mutant: the test is `query === undefined', which the default '' of line 66
\* never meets.
MissingQueryUndefined(query) == FALSE

\* Lines 66-68: req.query.query || '' followed by !query
MissingQuery(query) == query = ""

\* Lines 65-68 and, with a query, up to the await of line 76.
TapSync(query) ==
    /\ Accepting
    /\ nreq' = nreq + 1
    /\ modelStats' = RecordApiCall(modelStats)
    /\ IF MissingQuery(query)
       THEN /\ resp' = Response(nreq + 1, "tap", [query |-> query], 400,
                                [error |-> "Missing query parameter"])
            /\ reqs' = reqs
       ELSE /\ resp' = resp
            /\ reqs' = reqs \cup {[id |-> nreq + 1, route |-> "tap", body |-> [query |-> query]]}
    /\ UNCHANGED <<today, clock, proc, file, writes, boots>>

\* Lines 77-87: the upstream answered with an ok status; the body is sent and
\* saveStats is awaited.
TapFetchOk(r) ==
    /\ Serving
    /\ r \in reqs /\ r.route = "tap"
    /\ reqs' = reqs \ {r}
    /\ resp' = Response(r.id, "tap", r.body, 200, [data |-> "rows"])
    /\ writes' = writes \cup {saveStats(r.id, "tap", modelStats, TRUE, None)}
    /\ UNCHANGED <<today, clock, proc, modelStats, file, nreq, boots>>

\* Lines 77-78 and 88-91: fetch rejected or the status is not ok.
TapFetchFail(r, why) ==
    /\ Serving
    /\ r \in reqs /\ r.route = "tap"
    /\ reqs' = reqs \ {r}
    /\ resp' = Response(r.id, "tap", r.body, 500, [error |-> "Failed to fetch TAP data"])
    /\ UNCHANGED <<today, clock, proc, modelStats, file, writes, nreq, boots>>

-----------------------------------------------------------------------------
(* POST /predict, lines 97-135 *)

\* Mutant: the history entry is pushed after the await of saveStats, so the
\* step that ends at the await has applied the counters only.
RecordPredictCountersOnly(stats, features, prediction, confidence, reasoning, t) ==
    LET s1 == IF prediction = "CONFIRMED"
              THEN [stats EXCEPT !.confirmed_predictions = @ + 1]
              ELSE [stats EXCEPT !.rejected_predictions = @ + 1]
    IN  [s1 EXCEPT
           !.total_predictions = @ + 1,
           !.total_confidence = @ + confidence]

\* Lines 115-125: the recording of one scored prediction at time stamp t.
RecordPredict(stats, features, prediction, confidence, reasoning, t) ==
    LET s1 == IF prediction = "CONFIRMED"
              THEN [stats EXCEPT !.confirmed_predictions = @ + 1]
              ELSE [stats EXCEPT !.rejected_predictions = @ + 1]
    IN  [s1 EXCEPT
           !.total_predictions = @ + 1,
           !.total_confidence = @ + confidence,
           !.prediction_history =
               PushHistory(@, PredictEntry(features, prediction, confidence, t, reasoning))]

\* Line 129: the body of the answer.
PredictBody(prediction, confidence, reasoning) ==
    [prediction |-> prediction, confidence |-> Round2(confidence),
     reasoning |-> Join(reasoning)]

\* Lines 99-127: up to the await of saveStats.
Predict(features) ==
    /\ Accepting
    /\ nreq' = nreq + 1
    /\ IF BadFeatures(features)
       THEN /\ resp' = Response(nreq + 1, "predict", features, 400,
                                [error |-> "Expected array of 4 numerical features."])
            /\ UNCHANGED <<modelStats, writes, clock>>
       ELSE LET sc == Score(MapNumber(features.elems))
                confidence == Confidence(sc.score)
                prediction == Prediction(confidence)
                stats == RecordPredict(modelStats, features.elems, prediction,
                                       confidence, sc.reasoning, clock + 1)
            IN  /\ clock' = clock + 1
                /\ modelStats' = stats
                /\ writes' = writes \cup
                      {saveStats(nreq + 1, "predict", stats, TRUE,
                                 [features |-> features, prediction |-> prediction,
                                  confidence |-> confidence,
                                  reasoning |-> sc.reasoning])}
                /\ resp' = resp
    /\ UNCHANGED <<today, proc, file, reqs, boots>>

-----------------------------------------------------------------------------
(* POST /ai/predict, lines 266-326 *)

\* Mutant: the recording without total_predictions += 1.
RecordAiNoTotal(stats, body, data, t) ==
    LET s1 == [stats EXCEPT !.api_calls_today = @ + 1]
        s2 == IF "confidence" \in DOMAIN data
              THEN IF data.confidence > AiConfirmThreshold
                   THEN [s1 EXCEPT !.total_confidence = @ + data.confidence,
                                   !.confirmed_predictions = @ + 1]
                   ELSE [s1 EXCEPT !.total_confidence = @ + data.confidence,
                                   !.rejected_predictions = @ + 1]
              ELSE s1
    IN  [s2 EXCEPT !.prediction_history = UnshiftHistory(@, AiEntry(body, data, t))]

\* Lines 287-312: the recording of one answer `data' of the external API.
RecordAi(stats, body, data, t) ==
    LET s1 == [stats EXCEPT !.total_predictions = @ + 1,
                            !.api_calls_today = @ + 1]
        s2 == IF "confidence" \in DOMAIN data
              THEN IF data.confidence > AiConfirmThreshold
                   THEN [s1 EXCEPT !.total_confidence = @ + data.confidence,
                                   !.confirmed_predictions = @ + 1]
                   ELSE [s1 EXCEPT !.total_confidence = @ + data.confidence,
                                   !.rejected_predictions = @ + 1]
              ELSE s1
    IN  [s2 EXCEPT !.prediction_history = UnshiftHistory(@, AiEntry(body, data, t))]

\* Lines 268-277: up to the await of fetch.
AiPredict ==
    /\ Accepting
    /\ nreq' = nreq + 1
    /\ reqs' = reqs \cup {[id |-> nreq + 1, route |-> "ai", body |-> AiBody]}
    /\ UNCHANGED <<today, clock, proc, modelStats, file, writes, boots, resp>>

\* Lines 283-317: the external API answered with an ok status and a JSON body;
\* saveStats is started and not awaited.
AiFetchOk(r, data) ==
    /\ Serving
    /\ r \in reqs /\ r.route = "ai"
    /\ reqs' = reqs \ {r}
    /\ clock' = clock + 1
    /\ LET stats == RecordAi(modelStats, r.body, data, clock + 1)
       IN  /\ modelStats' = stats
           /\ writes' = writes \cup {saveStats(r.id, "ai", stats, FALSE, None)}
    /\ resp' = Response(r.id, "ai", r.body, 200, data)
    /\ UNCHANGED <<today, proc, file, nreq, boots>>

\* Lines 279-281 and 319-325: fetch rejected or the status is not ok.
AiFetchFail(r, why) ==
    /\ Serving
    /\ r \in reqs /\ r.route = "ai"
    /\ reqs' = reqs \ {r}
    /\ resp' = Response(r.id, "ai", r.body, 500, [error |-> "AI prediction failed"])
    /\ UNCHANGED <<today, clock, proc, modelStats, file, writes, nreq, boots>>

-----------------------------------------------------------------------------
(* GET /api/stats, lines 140-144 *)

\* Mutant: res.json(modelStats) runs before the increment.
ApiStatsAnswersFirst ==
    /\ Accepting
    /\ nreq' = nreq + 1
    /\ LET stats == RecordApiCall(modelStats)
       IN  /\ modelStats' = stats
           /\ resp' = Response(nreq + 1, "stats", None, 200, [stats |-> modelStats])
           /\ writes' = writes \cup {saveStats(nreq + 1, "stats", stats, FALSE, None)}
    /\ UNCHANGED <<today, clock, proc, file, reqs, boots>>

\* Lines 141-143: the increment, the answer, then saveStats, not awaited.
ApiStats ==
    /\ Accepting
    /\ nreq' = nreq + 1
    /\ LET stats == RecordApiCall(modelStats)
       IN  /\ modelStats' = stats
           /\ resp' = Response(nreq + 1, "stats", None, 200, [stats |-> stats])
           /\ writes' = writes \cup {saveStats(nreq + 1, "stats", stats, FALSE, None)}
    /\ UNCHANGED <<today, clock, proc, file, reqs, boots>>

-----------------------------------------------------------------------------
(* SIGTERM, line 166 *)

\* Mutant: saveStats() is not awaited, process.exit(0) runs at once.
SigtermExitsAtOnce ==
    /\ proc = "listening"
    /\ proc' = "exited"
    /\ writes' = writes \cup {saveStats(0, "sigterm", modelStats, TRUE, None)}
    /\ UNCHANGED <<today, clock, modelStats, file, reqs, nreq, boots, resp>>

\* The handler logs, starts saveStats and awaits it.  The signal is delivered
\* once, to a process that listens.
Sigterm ==
    /\ proc = "listening"
    /\ proc' = "stopping"
    /\ writes' = writes \cup {saveStats(0, "sigterm", modelStats, TRUE, None)}
    /\ UNCHANGED <<today, clock, modelStats, file, reqs, nreq, boots, resp>>

-----------------------------------------------------------------------------
(* Completion of a write started by saveStats, lines 45-51 *)

\* What the caller of saveStats does once the write `w' has ended.  A rejection
\* that nothing handles (a promise that was not awaited, or an error thrown in
\* a catch block when the answer was already sent) ends the process.
AfterSave(w, ok) ==
    IF w.route = "predict"
    THEN \* lines 127-134
         /\ resp' = IF SaveRejects(ok)
                    THEN Response(w.owner, "predict", w.locals.features, 500,
                                  [error |-> "Internal server error during prediction"])
                    ELSE Response(w.owner, "predict", w.locals.features, 200,
                                  PredictBody(w.locals.prediction, w.locals.confidence,
                                              w.locals.reasoning))
         /\ proc' = proc
    ELSE IF w.route = "sigterm"
    THEN \* line 166: process.exit(0) follows the await
         /\ resp' = resp
         /\ proc' = IF SaveRejects(ok) THEN "crashed" ELSE "exited"
    ELSE \* lines 87-91, 143, 315
         /\ resp' = resp
         /\ proc' = IF SaveRejects(ok) THEN "crashed" ELSE proc

\* The write ends: with success the file holds the text serialized when
\* saveStats was entered, with failure the file is as it was.
WriteDone(w, ok) ==
    /\ w \in writes
    /\ writes' = writes \ {w}
    /\ file' = IF ok THEN File(w.snapshot, today) ELSE file
    /\ IF Serving /\ w.boot = boots
       THEN AfterSave(w, ok)
       ELSE UNCHANGED <<resp, proc>>
    /\ UNCHANGED <<today, clock, modelStats, reqs, nreq, boots>>

-----------------------------------------------------------------------------

Next ==
    \/ Tick
    \/ loadStats
    \/ startServer
    \/ \E q \in TapQueries : TapSync(q)
    \/ \E r \in reqs : TapFetchOk(r)
    \/ \E r \in reqs, why \in FetchFailures : TapFetchFail(r, why)
    \/ \E f \in PredictInputs : Predict(f)
    \/ AiPredict
    \/ \E r \in reqs, data \in AiData : AiFetchOk(r, data)
    \/ \E r \in reqs, why \in FetchFailures : AiFetchFail(r, why)
    \/ ApiStats
    \/ Sigterm
    \/ \E w \in writes, ok \in BOOLEAN : WriteDone(w, ok)

Spec == Init /\ [][Next]_vars

-----------------------------------------------------------------------------
(* The scoring step on a grid of feature vectors *)

ScoreRequests == 1

\* Each feature on the two ends of its range (200, 500, 0.5, 2.0, 0.8, 1.5, 273,
\* 373) combined with the features just below the lower ends and with the
\* features just above the upper ends, and the vectors [300, 1.0, 1.0, 300],
\* [1000, 5, 10, 1000], [300, "abc", 1.0, 300].
GridInputs ==
    { ArrayFeatures(Vec(p, r, d, t)) :
        p \in {1999, 2000, 5000}, r \in {4, 5, 20},
        d \in {7, 8, 15}, t \in {2729, 2730, 3730} }
    \cup { ArrayFeatures(Vec(p, r, d, t)) :
        p \in {2000, 5000, 5001}, r \in {5, 20, 21},
        d \in {8, 15, 16}, t \in {2730, 3730, 3731} }
    \cup { AllSatisfied, NoneSatisfied,
           ArrayFeatures(<<JNum(3000), JStr("abc"), JNum(10), JNum(3000)>>) }

\* A process that listens after it found no file, or a record with counts of
\* earlier predictions.
ScoreInit ==
    /\ today = FirstDay
    /\ clock = FirstClock
    /\ proc = "listening"
    /\ file \in {NoFile, File(Stringify(PartialStats(FirstDay)), FirstDay)}
    /\ modelStats = LoadResult(file, DefaultStats(FirstDay, FirstClock), FirstDay).stats
    /\ reqs = {}
    /\ writes = {}
    /\ nreq = 0
    /\ boots = 1
    /\ resp = NoResponse

ScoreNext ==
    \/ \E f \in GridInputs : nreq < ScoreRequests /\ Predict(f)
    \/ \E w \in writes, ok \in BOOLEAN : WriteDone(w, ok)

ScoreSpec == ScoreInit /\ [][ScoreNext]_vars

-----------------------------------------------------------------------------
(* Claims about the scoring step, checked under ScoreSpec *)

\* The answer of POST /predict to a well-formed body has been sent.
Scored == resp.route = "predict" /\ resp.status = 200

\* C5: for every 4-element feature vector of the grid, the confidence computed
\* by the scoring step (kept by the handler across the await, and sent in the
\* answer) lies in [0, 1], and the verdict is CONFIRMED exactly when the
\* confidence is at least 0.5, FALSE POSITIVE otherwise.
C5_ConfidenceRangeAndVerdict ==
    /\ \A w \in writes :
         w.route = "predict" =>
           /\ w.locals.confidence >= 0 /\ w.locals.confidence <= 1000
           /\ w.locals.prediction \in {"CONFIRMED", "FALSE POSITIVE"}
           /\ w.locals.prediction = "CONFIRMED" <=> w.locals.confidence >= 500
    /\ Scored =>
         /\ resp.body.confidence >= 0 /\ resp.body.confidence <= 1000
         /\ resp.body.prediction \in {"CONFIRMED", "FALSE POSITIVE"}
         /\ resp.body.prediction = "CONFIRMED" <=> resp.body.confidence >= 500

\* A vector scoring 0.45, the sum nearest below the threshold, was answered.
C5_Witness ==
    /\ Scored
    /\ resp.body.confidence = 450
    /\ resp.body.prediction = "FALSE POSITIVE"

\* The table of the four checks: range (in tenths), weight (in thousandths), text.
CheckTable ==
    << [lo |-> 2000, hi |-> 5000, weight |-> 300, text |-> "Favorable orbital period"],
       [lo |-> 5,    hi |-> 20,   weight |-> 300, text |-> "Earth-like size"],
       [lo |-> 8,    hi |-> 15,   weight |-> 250, text |-> "In habitable zone"],
       [lo |-> 2730, hi |-> 3730, weight |-> 150, text |-> "Temperature allows liquid water"] >>

\* Whether element i of the vector `elems' satisfies check i.
Satisfies(elems, i) ==
    /\ elems[i].t = "number"
    /\ CheckTable[i].lo <= elems[i].v
    /\ elems[i].v <= CheckTable[i].hi

\* The sum of the weights of the satisfied checks among checks i..4.
RECURSIVE WeightFrom(_, _)
WeightFrom(elems, i) ==
    IF i > 4 THEN 0
    ELSE (IF Satisfies(elems, i) THEN CheckTable[i].weight ELSE 0) + WeightFrom(elems, i + 1)

\* The texts of the satisfied checks among checks i..4, comma-separated.
RECURSIVE TextFrom(_, _)
TextFrom(elems, i) ==
    IF i > 4 THEN ""
    ELSE IF ~Satisfies(elems, i) THEN TextFrom(elems, i + 1)
    ELSE IF \E j \in (i + 1)..4 : Satisfies(elems, j)
         THEN CheckTable[i].text \o ", " \o TextFrom(elems, i + 1)
         ELSE CheckTable[i].text

\* C6: the answer of the scoring step carries the sum of the weights of exactly
\* the satisfied range checks as confidence and the texts of exactly the
\* satisfied checks, in the order period, radius, distance, temperature, as
\* reasoning; [300, 1.0, 1.0, 300] gives 1.0 / CONFIRMED with the four texts
\* and [1000, 5, 10, 1000] gives 0 / FALSE POSITIVE with empty reasoning.  The
\* answer is this function of the request's vector whatever the record holds.
C6_AnswerIsWeightedSum ==
    Scored =>
      /\ resp.body.confidence = WeightFrom(resp.req.elems, 1)
      /\ resp.body.reasoning = TextFrom(resp.req.elems, 1)
      /\ resp.req = AllSatisfied =>
           resp.body =
             [ prediction |-> "CONFIRMED", confidence |-> 1000,
               reasoning |-> "Favorable orbital period, Earth-like size, In habitable zone, Temperature allows liquid water" ]
      /\ resp.req = NoneSatisfied =>
           resp.body = [prediction |-> "FALSE POSITIVE", confidence |-> 0, reasoning |-> ""]

\* A vector with every feature on an end of its range was answered, by a
\* process whose record already held predictions.
C6_Witness ==
    /\ Scored
    /\ resp.req = ArrayFeatures(Vec(2000, 20, 8, 3730))
    /\ resp.body.confidence = 1000
    /\ modelStats.total_predictions > 1

-----------------------------------------------------------------------------
(* Claims about the record and its handlers, checked under Spec *)

History == modelStats.prediction_history

\* A step that records one prediction (lines 115-125 or 287-312).
Recording ==
    /\ Serving
    /\ clock' = clock + 1
    /\ modelStats'.total_predictions = modelStats.total_predictions + 1

\* A step that sends the answer of a request.
Answering == resp' # resp

\* C1: in every state reachable after a prediction is recorded,
\* total_predictions = confirmed_predictions + rejected_predictions, also when
\* the answer of the external API carries no confidence field.
C1_CountersBalanced ==
    modelStats.total_predictions =
        modelStats.confirmed_predictions + modelStats.rejected_predictions

\* The entry of a non-empty history with the least time stamp.
Oldest(h) == CHOOSE e \in {h[i] : i \in DOMAIN h} :
                 \A i \in DOMAIN h : e.timestamp <= h[i].timestamp

InHistory(e, h) == \E i \in DOMAIN h : h[i] = e

\* C2: the history never holds more than 100 entries, and a recording made
\* while it holds 100 removes the oldest entry (the one recorded earliest) and
\* leaves the entry just recorded in it, on both recording paths.
C2_HistoryDropsOldest ==
    [][ Recording =>
          /\ Len(History') <= 100
          /\ \E i \in DOMAIN History' : History'[i].timestamp = clock'
          /\ Len(History) = 100 => ~InHistory(Oldest(History), History') ]_vars

\* C3: a request answered 4xx (a /tap/sync without query, a /predict with
\* missing, non-array or wrong-length features) leaves every field of the
\* record, api_calls_today included, as it was.
C3_ClientErrorLeavesStats ==
    [][ (Answering /\ resp'.status >= 400 /\ resp'.status < 500)
          => modelStats' = modelStats ]_vars

\* C4: a request whose upstream call fails is answered 5xx and has not changed
\* the record.  The failing path of a handler is the step from its entry to
\* the await of the upstream call (the request joins reqs), which runs before
\* the outcome is known, and the step that handles the failure: neither may
\* change the record.
C4_UpstreamFailureLeavesStats ==
    [][ /\ (\E r \in reqs' : r \notin reqs) => modelStats' = modelStats
        /\ (\E r \in reqs : r \notin reqs' /\ writes' = writes /\ Serving') =>
              /\ resp'.id \in {r.id : r \in reqs \ reqs'}
              /\ resp'.status >= 500
              /\ modelStats' = modelStats ]_vars

-----------------------------------------------------------------------------
(* Claims about loadStats and saveStats, checked under Spec *)

\* The step in which loadStats ends and startServer goes on (or fails).
Loading == proc = "starting" /\ proc' # "starting"

\* The file holds a JSON object.
Parsable == file.kind = "object"

\* The file holds a whole statistics record, as saveStats writes it.
SavedRecord == Parsable /\ DOMAIN file.obj = DOMAIN modelStats

RolloverFields == {"api_calls_today", "last_reset"}

\* C7: loadStats on a parsable record whose last_reset differs from the current
\* day leaves api_calls_today = 0 and last_reset = today, every other persisted
\* field overriding its default (and a field the record lacks keeping its
\* default); when the persisted last_reset is today, the persisted
\* api_calls_today is kept with every other persisted field.
C7_LoadRollover ==
    [][ (Loading /\ Parsable) =>
          LET saved == file.obj
              stale == "last_reset" \notin DOMAIN saved \/ saved.last_reset # today
          IN  /\ stale =>
                   /\ modelStats'.api_calls_today = 0
                   /\ modelStats'.last_reset = today
                   /\ \A k \in DOMAIN saved \ RolloverFields : modelStats'[k] = saved[k]
              /\ ~stale => \A k \in DOMAIN saved : modelStats'[k] = saved[k]
              /\ \A k \in DOMAIN modelStats \ (DOMAIN saved \cup RolloverFields) :
                   modelStats'[k] = modelStats[k]
              /\ DOMAIN modelStats' = DOMAIN modelStats \cup DOMAIN saved ]_vars

\* A process has loaded, on a later day, the record that held 7 calls.
C7_Witness ==
    /\ proc = "listening"
    /\ nreq = 0
    /\ Parsable
    /\ file.obj.last_reset # today
    /\ file.obj.api_calls_today = 7
    /\ modelStats.api_calls_today = 0
    /\ modelStats.last_reset = today
    /\ modelStats.total_predictions = file.obj.total_predictions
    /\ Len(modelStats.prediction_history) = HistoryCap - 1

\* C8 as claimed: when saveStats has written the record and a new process runs
\* loadStats on the calendar day of that write, the record after the load is
\* the saved record, field by field.
C8_RoundTripSameDay ==
    [][ (Loading /\ SavedRecord /\ file.mtime = today) => modelStats' = file.obj ]_vars

\* C8 as amended: when saveStats has written the record and a new process runs
\* loadStats on the calendar day that the saved last_reset names, the record
\* after the load is the saved record, field by field.
C8_RoundTripSameReset ==
    [][ (Loading /\ SavedRecord /\ file.obj.last_reset = today) =>
          modelStats' = file.obj ]_vars

\* A second process holds the record the first one saved: the first one's
\* start_time and its count of calls.
C8_Witness ==
    /\ boots = 2
    /\ proc = "listening"
    /\ SavedRecord
    /\ modelStats = file.obj
    /\ modelStats.start_time = FirstClock
    /\ modelStats.start_time < clock
    /\ modelStats.api_calls_today > 0
    /\ modelStats.total_predictions > 0

\* C9: with the file absent or its text unparsable, loadStats raises nothing,
\* the record stays the defaults constructed at process start (counters 0,
\* empty history) and startServer goes on to listen.
C9_LoadFallsBack ==
    [][ (Loading /\ file.kind \in {"absent", "garbage"}) =>
          /\ proc' = "listening"
          /\ modelStats' = modelStats
          /\ modelStats' = DefaultStats(modelStats.last_updated, modelStats.start_time)
          /\ modelStats'.total_predictions = 0
          /\ modelStats'.confirmed_predictions = 0
          /\ modelStats'.rejected_predictions = 0
          /\ modelStats'.total_confidence = 0
          /\ modelStats'.api_calls_today = 0
          /\ modelStats'.prediction_history = <<>> ]_vars

\* A process listens, still with its defaults, beside a file that is no JSON.
C9_Witness ==
    /\ proc = "listening"
    /\ file.kind = "garbage"
    /\ nreq = 0
    /\ modelStats = DefaultStats(FirstDay, FirstClock)

\* C10: a write of saveStats that ends, with success or with failure, leaves
\* the in-memory record as it is and the process serving; the answer of
\* POST /predict, sent after the write, is 200 with the scored result either
\* way, and the answers of the other routes, sent before the write ends, are
\* not followed by another.
C10_SaveOutcomeUnseen ==
    [][ \A w \in writes :
          (w \notin writes' /\ boots' = boots) =>
             /\ modelStats' = modelStats
             /\ w.route # "sigterm" => proc' = proc
             /\ (Serving /\ w.route = "predict") =>
                   /\ resp'.id = w.owner
                   /\ resp'.status = 200
                   /\ resp'.body.prediction = w.locals.prediction
                   /\ resp'.body.confidence = Round2(w.locals.confidence)
             /\ (Serving /\ w.route # "predict") => resp' = resp ]_vars

\* Two requests were served and every write failed (there is still no file):
\* the second, a POST /predict, was answered 200 from the in-memory record.
C10_Witness ==
    /\ file.kind = "absent"
    /\ writes = {}
    /\ proc = "listening"
    /\ nreq = 2
    /\ resp.id = 2
    /\ resp.route = "predict"
    /\ resp.status = 200
    /\ modelStats.total_predictions = 2

-----------------------------------------------------------------------------
(* Claims about upstream calls, shutdown and interleaving, checked under Spec *)

\* C11: a GET /tap/sync whose query parameter is missing or empty is answered
\* with a 400-class status at once and no upstream call is issued for it; every
\* request issues at most one upstream call: a call is issued only in the step
\* that receives the request, one at most, and the step that ends a call
\* (with an answer or a failure) issues none.
C11_NoCallWithoutQuery ==
    [][ /\ Cardinality(reqs' \ reqs) <= 1
        /\ \A r \in reqs' \ reqs :
             /\ nreq' = nreq + 1
             /\ r.id = nreq'
             /\ r.route = "tap" => r.body.query # ""
        /\ (\E r \in reqs : r \notin reqs') => reqs' \subseteq reqs
        /\ (Answering /\ resp'.route = "tap" /\ resp'.req.query = "") =>
             /\ resp'.id = nreq'
             /\ nreq' = nreq + 1
             /\ resp'.status >= 400 /\ resp'.status < 500
             /\ reqs' = reqs ]_vars

\* The second request, a GET /tap/sync without query, was answered 400 while
\* the upstream call of the first is in flight and stays the only one.
C11_Witness ==
    /\ resp.route = "tap"
    /\ resp.status = 400
    /\ resp.req.query = ""
    /\ resp.id = 2
    /\ Cardinality(reqs) = 1
    /\ \A r \in reqs : r.id = 1

\* The writes in flight that the SIGTERM handler of this process started.
FinalSaves(ws) == {w \in ws : w.route = "sigterm" /\ w.boot = boots}

\* C12: on SIGTERM the process starts one saveStats of the record as it is in
\* memory, and exits in the step in which that write ends and in no other:
\* it does not exit while the write is in flight, and it exits when the write
\* ends with a failure as it does when the write ends with success.
C12_ExitAfterFinalSave ==
    [][ /\ (proc = "listening" /\ proc' = "stopping") =>
             /\ Cardinality(FinalSaves(writes')) = 1
             /\ \A w \in FinalSaves(writes') :
                  /\ writes' = writes \cup {w}
                  /\ w.snapshot = Stringify(modelStats)
        /\ proc = "stopping" => Cardinality(FinalSaves(writes)) = 1
        /\ (proc # "exited" /\ proc' = "exited") =>
             /\ proc = "stopping"
             /\ FinalSaves(writes') = {}
        /\ (proc = "stopping" /\ FinalSaves(writes') = {}) => proc' = "exited"
        /\ proc = "stopping" => proc' \in {"stopping", "exited"} ]_vars

\* The process has exited although its final write failed, as every write
\* before it did: there is still no file.
C12_Witness ==
    /\ proc = "exited"
    /\ boots = 1
    /\ file.kind = "absent"
    /\ nreq > 0
    /\ modelStats.api_calls_today > 0

RecordingFields ==
    {"total_predictions", "confirmed_predictions", "rejected_predictions",
     "total_confidence", "prediction_history"}

\* A step that changes a field that a recording writes.
Touched == \E f \in RecordingFields : modelStats'[f] # modelStats[f]

\* The entry has no verdict: the external API answered without confidence.
NoVerdict(e) == "output" \in DOMAIN e /\ "confidence" \notin DOMAIN e.output

\* The step applies all of one recording: the count, the entry with the new
\* time stamp in a history cut to 100, the confidence of that entry, and the
\* verdict count when the entry has a verdict.
WholeRecording ==
    /\ clock' = clock + 1
    /\ modelStats'.total_predictions = modelStats.total_predictions + 1
    /\ Len(History') = Min(HistoryCap, Len(History) + 1)
    /\ \E i \in DOMAIN History' :
         LET e == History'[i]
         IN  /\ e.timestamp = clock'
             /\ modelStats'.total_confidence = modelStats.total_confidence + e.confidence
             /\ modelStats'.confirmed_predictions + modelStats'.rejected_predictions =
                  modelStats.confirmed_predictions + modelStats.rejected_predictions
                  + (IF NoVerdict(e) THEN 0 ELSE 1)

C14_RolloverOnlyAtLoad ==
    [][ /\ (Serving /\ Serving') =>
             /\ modelStats'.last_reset = modelStats.last_reset
             /\ modelStats'.api_calls_today >= modelStats.api_calls_today
             /\ (Answering /\ resp'.route = "stats" /\ modelStats.last_reset # today) =>
                   modelStats'.api_calls_today = modelStats.api_calls_today + 1
        /\ today' # today => modelStats' = modelStats ]_vars

\* A process that loaded 7 calls of the first day serves on the second day:
\* last_reset names the first day and the count has grown to 9.
C14_Witness ==
    /\ Serving
    /\ boots = 1
    /\ today = FirstDay + 1
    /\ modelStats.last_reset = FirstDay
    /\ modelStats.api_calls_today = 9
    /\ resp.route = "stats"
    /\ resp.body.stats = modelStats

\* C15: each GET /api/stats adds exactly 1 to api_calls_today, leaves every
\* other field of the record as it was, and answers 200 with the record that
\* already holds the incremented api_calls_today.
C15_StatsCountsItself ==
    [][ (Answering /\ resp'.route = "stats") =>
          /\ modelStats' = [modelStats EXCEPT !.api_calls_today = @ + 1]
          /\ resp'.status = 200
          /\ resp'.body.stats.api_calls_today = modelStats.api_calls_today + 1
          /\ \A k \in DOMAIN modelStats \ {"api_calls_today"} :
               resp'.body.stats[k] = modelStats[k] ]_vars

\* GET /api/stats on the record of 99 predictions and 7 calls answered 8 calls
\* and the 99 entries.
C15_Witness ==
    /\ resp.route = "stats"
    /\ resp.status = 200
    /\ resp.body.stats.api_calls_today = 8
    /\ resp.body.stats.total_predictions = HistoryCap - 1
    /\ Len(resp.body.stats.prediction_history) = HistoryCap - 1
    /\ modelStats = resp.body.stats

-----------------------------------------------------------------------------
(* Starts from records that no run of this program wrote *)

\* Parsable records as loadStats may find them (line 33 parses whatever the
\* file holds): more verdicts than predictions, and negative counts.
UnbalancedStats(day) ==
    [ total_predictions |-> 2, confirmed_predictions |-> 3,
      rejected_predictions |-> 1, last_reset |-> day ]

NegativeStats(day) ==
    [ total_predictions |-> -1, api_calls_today |-> -4, last_reset |-> day ]

AnyFiles ==
    { NoFile, File(Stringify(UnbalancedStats(FirstDay)), FirstDay),
      File(Stringify(NegativeStats(FirstDay)), FirstDay) }

AnyInit ==
    /\ today = FirstDay
    /\ clock = FirstClock
    /\ proc = "starting"
    /\ modelStats = DefaultStats(FirstDay, FirstClock)
    /\ file \in AnyFiles
    /\ reqs = {}
    /\ writes = {}
    /\ nreq = 0
    /\ boots = 1
    /\ resp = NoResponse

AnySpec == AnyInit /\ [][Next]_vars

CounterFields ==
    {"total_predictions", "confirmed_predictions", "rejected_predictions",
     "api_calls_today"}

\* C16: in every reachable state, the state right after loadStats merged an
\* arbitrary parsable record over the defaults included, total_predictions,
\* confirmed_predictions, rejected_predictions and api_calls_today are
\* non-negative integers and confirmed_predictions + rejected_predictions
\* is at most total_predictions.
C16_CountersWellFormed ==
    /\ \A f \in CounterFields : modelStats[f] \in Nat
    /\ modelStats.confirmed_predictions + modelStats.rejected_predictions
         <= modelStats.total_predictions

-----------------------------------------------------------------------------
(* The verdict count at the threshold, checked under Spec *)

\* C17: a recording whose confidence is exactly 0.5 adds 1 to
\* confirmed_predictions and nothing to rejected_predictions, on POST /predict
\* and on POST /ai/predict alike.
C17_HalfIsConfirmed ==
    [][ (Recording /\ \E i \in DOMAIN History' :
                         /\ History'[i].timestamp = clock'
                         /\ History'[i].confidence = ConfirmThreshold) =>
          /\ modelStats'.confirmed_predictions = modelStats.confirmed_predictions + 1
          /\ modelStats'.rejected_predictions = modelStats.rejected_predictions ]_vars

-----------------------------------------------------------------------------
(* Racing saves: every request that changes the record saves it, and every
   write succeeds *)

RaceInit ==
    /\ today = FirstDay
    /\ clock = FirstClock
    /\ proc = "starting"
    /\ modelStats = DefaultStats(FirstDay, FirstClock)
    /\ file \in {NoFile, File(Stringify(PartialStats(FirstDay)), FirstDay)}
    /\ reqs = {}
    /\ writes = {}
    /\ nreq = 0
    /\ boots = 1
    /\ resp = NoResponse

RaceNext ==
    \/ loadStats
    \/ \E f \in PredictInputs : Predict(f)
    \/ AiPredict
    \/ \E r \in reqs, data \in AiData : AiFetchOk(r, data)
    \/ \E r \in reqs, why \in FetchFailures : AiFetchFail(r, why)
    \/ ApiStats
    \/ \E w \in writes : WriteDone(w, TRUE)

RaceSpec == RaceInit /\ [][RaceNext]_vars

\* C18: with every write succeeding, when the last write in flight has ended
\* and no request is in progress, the file holds the record as it is in
\* memory: the snapshot of the save started last is the one that stays, and
\* no change made by a completed request is missing from the file.
C18_FileConverges ==
    [][ (writes # {} /\ writes' = {} /\ reqs' = {}) =>
          /\ file'.kind = "object"
          /\ file'.obj = modelStats' ]_vars

=============================================================================
